---- MODULE Spec2Model ----
(***************************************************************************)
(* Model of the Key Transparency epoch sequencer                           *)
(* (core/sequencer/sequencer.go): Initialize, StartSigning, CreateEpoch,   *)
(* newMutations, applyMutations, logProofs, queueLogLeaf and the mutation  *)
(* channel dispatcher, together with the collaborators it calls over RPC   *)
(* (Trillian map, Trillian log, mutation table, Mutator).                  *)
(***************************************************************************)
EXTENDS Integers, Sequences, FiniteSets, TLC

(***************************************************************************)
(* Bounds of the model.                                                    *)
(***************************************************************************)
MaxMutations == 2   \* mutations ever written to the mutation table
MaxRev       == 2   \* highest map revision SetLeaves may create
MaxDelivered == 2   \* messages a subscriber receives per process run
MaxBatch     == 3   \* batch length of the applyMutations specification
MaxRegistrations == 2  \* calls of RegisterMutationsChannel per process run
MaxTime      == 6   \* time units the clock is followed for
MaxTimely    == 9   \* the same when time passes only in RPCs
MaxIntervalLen == 3 \* greatest minInterval and maxInterval, in time units

(***************************************************************************)
(* Program constants.                                                      *)
(***************************************************************************)
IndexLen == 32      \* toArray returns a [32]byte

Nil == [nil |-> TRUE]        \* a nil pointer
NoLeaf == [absent |-> TRUE]  \* key absent from a Go map
NilEntry == 0                \* a nil *tpb.Entry; entries are 1, 2, ...

(***************************************************************************)
(* Data: indexes are byte strings, entries are small numbers, a leaf value *)
(* is the serialized entry.                                                *)
(***************************************************************************)
KeyA  == <<1>>
KeyA0 == <<1, 0>>   \* differs from KeyA only by a trailing zero byte
KeyB  == <<2>>
Keys  == {KeyA, KeyA0, KeyB}
Entries == {1, 2}

\* toArray returns the first 32 bytes from b, zero padded.
toArray(b) == [i \in 1..IndexLen |-> IF i <= Len(b) THEN b[i] ELSE 0]

PaddedIndexes == {toArray(k) : k \in Keys}

\* Serialized form of an entry (proto.Marshal in the Mutator); the empty
\* byte string is the value of a leaf that was never set.
EmptyValue == <<>>
CorruptValue == <<255>>
ToLeafValue(e) == <<e>>

\* entry.FromLeafValue: nil entry for an empty value, the entry for a well
\* formed value, an error otherwise.
FromLeafValue(v) ==
    IF v = EmptyValue THEN [err |-> FALSE, entry |-> NilEntry]
    ELSE IF Len(v) = 1 /\ v[1] \in Entries THEN [err |-> FALSE, entry |-> v[1]]
    ELSE [err |-> TRUE, entry |-> NilEntry]

\* mutator.Mutate(oldValue, m): rejects a mutation with a bad signature or one
\* whose `previous` does not name the old entry; otherwise returns the
\* serialized new entry.
Mutate(oldValue, m) ==
    IF ~m.ok \/ m.prev # oldValue
    THEN [err |-> TRUE, value |-> EmptyValue]
    ELSE [err |-> FALSE, value |-> ToLeafValue(m.value)]

\* The signed updates the model submits (tpb.SignedKV).
SignedKV(k, v, p, ok) == [key |-> k, value |-> v, prev |-> p, ok |-> ok]
\* The updates clients submit in the full system specification: the first
\* creates the entry of an index, the second replaces that entry (its key is
\* the same index written with a trailing zero byte).
SubmittedKVs ==
    { SignedKV(KeyA, 1, NilEntry, TRUE),
      SignedKV(KeyA0, 2, 1, TRUE) }

\* trillian.SignedMapRoot: the fields the sequencer relies on.
SMR(rev, hfcs) == [map_revision |-> rev, highest_fully_completed_seq |-> hfcs]
\* json.Marshal(smr) and sha256.Sum256 of it.
Marshal(smr) == <<"map_revision", smr.map_revision,
                  "highest_fully_completed_seq", smr.highest_fully_completed_seq>>
Sum256(bytes) == <<"sha256", bytes>>
LogLeaf(smr) == [LeafValue |-> Marshal(smr), LeafIdentityHash |-> Sum256(Marshal(smr))]

Max(S) == CHOOSE x \in S : \A y \in S : y <= x

RemoveAt(s, k) == SubSeq(s, 1, k - 1) \o SubSeq(s, k + 1, Len(s))

(***************************************************************************)
(* Collaborators reached over RPC.                                         *)
(***************************************************************************)
\* mutations.ReadAll(txn, startSequence): the mutations with a sequence number
\* above startSequence, in sequence order, and the highest sequence read.
\* The sequence number of a mutation is its position in the table.
ReadAll(table, startSequence) ==
    LET batch == SubSeq(table, startSequence + 1, Len(table))
    IN [mutations |-> batch,
        maxSequence |-> IF batch = <<>> THEN startSequence ELSE Len(table)]

\* tmap.GetLeaves(Index: indexes, Revision: -1): one MapLeafInclusion per
\* requested index, in request order, under the current revision.
GetLeavesResponse(leafStore, rev, indexes) ==
    [i \in 1..Len(indexes) |->
        [Leaf |-> [Index |-> indexes[i], LeafValue |-> leafStore[toArray(indexes[i])]],
         Revision |-> rev]]

\* tmap.SetLeaves: the leaf store after writing `leaves`.
SetLeavesStore(leafStore, leaves) ==
    [p \in PaddedIndexes |->
        IF \E l \in leaves : toArray(l.Index) = p
        THEN (CHOOSE l \in leaves : toArray(l.Index) = p).LeafValue
        ELSE leafStore[p]]

\* tlog.QueueLeaf: the log's leaves (in queue order) after queueing `leaf`;
\* a leaf whose identity hash is already present is not added again.
QueueLeafLog(leaves, leaf) ==
    IF \E i \in 1..Len(leaves) : leaves[i].LeafIdentityHash = leaf.LeafIdentityHash
    THEN leaves
    ELSE Append(leaves, leaf)

(***************************************************************************)
(* applyMutations (pure).                                                  *)
(***************************************************************************)
\* leafMap: the last leaf of the list for each padded index.
LeafMapOf(leaves) ==
    [p \in PaddedIndexes |->
        LET at == {i \in 1..Len(leaves) : toArray(leaves[i].Index) = p}
        IN IF at = {} THEN NoLeaf ELSE leaves[Max(at)]]

applyInit(leaves) ==
    [leafMap |-> LeafMapOf(leaves),
     retMap |-> [p \in PaddedIndexes |-> NoLeaf],
     mutateCalls |-> <<>>]

\* Three loop bodies applyMutations does NOT have; the properties of
\* applyMutations below are shown to tell each of them from applyOne.
\* (1) The first accepted mutation of an index is kept, later ones dropped.
applyOne_keepFirst(st, m) ==
    LET index == m.key
        leaf == st.leafMap[toArray(index)]
        old == IF leaf # NoLeaf THEN FromLeafValue(leaf.LeafValue)
               ELSE [err |-> FALSE, entry |-> NilEntry]
        new == Mutate(old.entry, m)
        call == [invoked |-> ~old.err,
                 oldValue |-> IF old.err THEN NilEntry ELSE old.entry,
                 err |-> old.err \/ new.err,
                 value |-> IF old.err \/ new.err THEN EmptyValue ELSE new.value]
    IN [st EXCEPT
            !.retMap[toArray(index)] =
                IF ~call.err /\ @ = NoLeaf
                THEN [Index |-> index, LeafValue |-> new.value] ELSE @,
            !.mutateCalls = Append(@, call)]

\* (2) An accepted mutation also replaces the leaf later mutations start from.
applyOne_chained(st, m) ==
    LET index == m.key
        leaf == st.leafMap[toArray(index)]
        old == IF leaf # NoLeaf THEN FromLeafValue(leaf.LeafValue)
               ELSE [err |-> FALSE, entry |-> NilEntry]
        new == Mutate(old.entry, m)
        call == [invoked |-> ~old.err,
                 oldValue |-> IF old.err THEN NilEntry ELSE old.entry,
                 err |-> old.err \/ new.err,
                 value |-> IF old.err \/ new.err THEN EmptyValue ELSE new.value]
        written == [Index |-> index, LeafValue |-> new.value]
    IN [st EXCEPT
            !.leafMap[toArray(index)] = IF call.err THEN @ ELSE written,
            !.retMap[toArray(index)] = IF call.err THEN @ ELSE written,
            !.mutateCalls = Append(@, call)]

\* (3) A rejected mutation discards what earlier mutations of its index wrote.
applyOne_rejectDrops(st, m) ==
    LET index == m.key
        leaf == st.leafMap[toArray(index)]
        old == IF leaf # NoLeaf THEN FromLeafValue(leaf.LeafValue)
               ELSE [err |-> FALSE, entry |-> NilEntry]
        new == Mutate(old.entry, m)
        call == [invoked |-> ~old.err,
                 oldValue |-> IF old.err THEN NilEntry ELSE old.entry,
                 err |-> old.err \/ new.err,
                 value |-> IF old.err \/ new.err THEN EmptyValue ELSE new.value]
    IN [st EXCEPT
            !.retMap[toArray(index)] =
                IF call.err THEN NoLeaf ELSE [Index |-> index, LeafValue |-> new.value],
            !.mutateCalls = Append(@, call)]

\* One iteration of the loop over the mutations. mutateCalls records, per
\* mutation, whether Mutate was invoked, with which old value, and its outcome.
applyOne(st, m) ==
    LET index == m.key
        leaf == st.leafMap[toArray(index)]
        old == IF leaf # NoLeaf THEN FromLeafValue(leaf.LeafValue)
               ELSE [err |-> FALSE, entry |-> NilEntry]
        new == Mutate(old.entry, m)
    IN IF old.err
       THEN [st EXCEPT !.mutateCalls =
                Append(@, [invoked |-> FALSE, oldValue |-> NilEntry, err |-> TRUE,
                           value |-> EmptyValue])]
       ELSE IF new.err
       THEN [st EXCEPT !.mutateCalls =
                Append(@, [invoked |-> TRUE, oldValue |-> old.entry, err |-> TRUE,
                           value |-> EmptyValue])]
       ELSE [st EXCEPT
                !.retMap[toArray(index)] = [Index |-> index, LeafValue |-> new.value],
                !.mutateCalls =
                    Append(@, [invoked |-> TRUE, oldValue |-> old.entry, err |-> FALSE,
                               value |-> new.value])]

RECURSIVE applyLoop(_, _)
applyLoop(st, mutations) ==
    IF mutations = <<>> THEN st
    ELSE applyLoop(applyOne(st, Head(mutations)), Tail(mutations))

\* The leaves to write: the values of retMap (a Go map: no order).
applyMutations(mutations, leaves) ==
    LET st == applyLoop(applyInit(leaves), mutations)
    IN [ret |-> {st.retMap[p] : p \in {q \in PaddedIndexes : st.retMap[q] # NoLeaf}},
        mutateCalls |-> st.mutateCalls]

(***************************************************************************)
(* State.                                                                  *)
(***************************************************************************)
VARIABLES
    mapRoot,       \* map server: the current signed map root
    mapLeaves,     \* map server: leaf value per padded index at the head
    logLeaves,     \* log server: the leaves queued, in queue order
    logTreeSize,   \* log server: how many of them the signed log root covers
    table,         \* mutation table: the SignedKVs, sequence number = position
    pc,            \* position of the driver (StartSigning and its callees)
    retTo,         \* where the running CreateEpoch returns to
    initErr,       \* Initialize: "none" while running, then "ok" or "err"
    logRootSize,   \* Initialize: logRoot.GetSignedLogRoot().GetTreeSize()
    initMapRoot,   \* Initialize: mapRoot.GetMapRoot(), Nil until read
    initQueued,    \* history: QueueLeaf requests of Initialize the log accepted
    forceNewEpoch, \* CreateEpoch: parameter
    startSequence, \* CreateEpoch: local
    revision,      \* CreateEpoch: local
    mRange,        \* CreateEpoch: local
    seq,           \* CreateEpoch: local
    mutations,     \* CreateEpoch: local, the summary's mutations
    newLeaves,     \* CreateEpoch: local
    mutateCalls,   \* history: the Mutate invocations of applyMutations
    setResp,       \* CreateEpoch: local, the SMR SetLeaves returned
    secondTreeSize,\* logProofs: local
    result,        \* CreateEpoch: returned *GetMutationsResponse (or Nil)
    err,           \* CreateEpoch: returned error ("none" or what failed)
    mChannels,     \* Sequencer.mChannels
    mMux,          \* Sequencer.mMux: "free" or its holder
    delivered,     \* per channel, the messages received from it so far
    calls,         \* history: RPCs issued by the running Initialize/CreateEpoch
    startRevision, \* history: map revision read at the start of CreateEpoch
    atCall,        \* history: the map root and the log's leaves when
                   \* CreateEpoch was called
    lastEpoch,     \* history: epoch of the last summary an earlier CreateEpoch
                   \* of this process returned, 0 if none
    restarted,     \* history: the process has been restarted
    cancelled,     \* the ambient context of StartSigning is cancelled
    expired,       \* the deadline of the current ctxTime has passed
    queueLeafCtx,  \* history: "none", or the state ("live", "done") of the
                   \* context the epoch's QueueLeaf request was issued under
    aLeaves, aBatch, aOut, \* the applyMutations specification: inputs and output
    now,           \* the clock (util.TimeSource), in time units
    minInterval,   \* StartSigning: parameter
    maxInterval,   \* StartSigning: parameter
    pubTime,       \* map server: per revision written, the time of its root
    deadline,      \* the deadline of the ctxTime of the loop's CreateEpoch
    nextFire,      \* time.Ticker: when it fires next
    minTick,       \* time.Ticker: its channel (room for one value), or NoTick
    gPc,           \* genEpochTicks: position of its goroutine, "off" before
    gLast,         \* genEpochTicks: last
    gNow,          \* genEpochTicks: the time under test (t.Now() or now)
    marshalFailed, \* history: json.Marshal has failed in queueLogLeaf since the
                   \* process started
    applied,       \* history: per successful SetLeaves, the sequence numbers
                   \* of the batch it wrote
    dAtLock,       \* disseminateMutations: s.mChannels when it took the lock
    dSent,         \* disseminateMutations: the channels sent to so far
    regPc,         \* RegisterMutationsChannel: position of its caller
    regCh          \* RegisterMutationsChannel: parameter ch

mapVars == <<mapRoot, mapLeaves>>
logVars == <<logLeaves, logTreeSize>>
ceVars  == <<forceNewEpoch, startSequence, revision, mRange, seq, mutations,
             newLeaves, mutateCalls, setResp, secondTreeSize, result, err,
             startRevision, atCall>>
iniVars == <<initErr, logRootSize, initMapRoot, initQueued>>
chVars  == <<mChannels, mMux, delivered>>
aVars   == <<aLeaves, aBatch, aOut>>
ctxVars == <<cancelled, expired, queueLeafCtx>>
hVars   == <<marshalFailed, applied>>
dVars   == <<dAtLock, dSent, regPc, regCh>>
tVars   == <<now, minInterval, maxInterval, pubTime, deadline, nextFire, minTick,
             gPc, gLast, gNow>>
vars == <<mapRoot, mapLeaves, logLeaves, logTreeSize, table, pc, retTo, initErr,
          logRootSize, initMapRoot, initQueued, forceNewEpoch, startSequence,
          revision, mRange, seq, mutations, newLeaves, mutateCalls, setResp,
          secondTreeSize, result, err, mChannels,
          mMux, delivered, calls, startRevision, atCall, lastEpoch, restarted,
          cancelled, expired, queueLeafCtx, aLeaves, aBatch, aOut,
          now, minInterval, maxInterval, pubTime, deadline, nextFire, minTick,
          gPc, gLast, gNow, marshalFailed, applied,
          dAtLock, dSent, regPc, regCh>>

\* The subscriber channels of the model: one sequencer service handler.
Channels == {"ch1"}

\* CreateEpoch's locals before it runs.
ceClear ==
    /\ forceNewEpoch = FALSE /\ startSequence = 0 /\ revision = 0
    /\ mRange = <<>> /\ seq = 0 /\ mutations = <<>> /\ newLeaves = {}
    /\ mutateCalls = <<>>
    /\ setResp = Nil /\ secondTreeSize = 0 /\ result = Nil /\ err = "none"
    /\ startRevision = 0 /\ atCall = Nil

\* The sequencer after New(), against an empty map, an empty log and an empty
\* mutation table.
InitSequencer(chans) ==
    /\ mapRoot = SMR(0, 0)
    /\ mapLeaves = [p \in PaddedIndexes |-> EmptyValue]
    /\ logLeaves = <<>>
    /\ logTreeSize = 0
    /\ table = <<>>
    /\ pc = "StartSigning"
    /\ retTo = "none"
    /\ initErr = "none"
    /\ logRootSize = 0
    /\ initMapRoot = Nil
    /\ initQueued = 0
    /\ ceClear
    /\ mChannels = <<>>
    /\ mMux = "free"
    /\ delivered = [c \in chans |-> <<>>]
    /\ calls = <<>>
    /\ lastEpoch = 0
    /\ restarted = FALSE
    /\ cancelled = FALSE /\ expired = FALSE /\ queueLeafCtx = "none"
    /\ marshalFailed = FALSE
    /\ applied = <<>>
    /\ dAtLock = <<>> /\ dSent = <<>> /\ regPc = "idle" /\ regCh = "none"

InitSystem == InitSequencer(Channels)

\* An empty ticker channel.
NoTick == -1

\* The clock at the creation of the map, no tick generator running yet.
InitClock ==
    /\ now = 0 /\ pubTime = <<>> /\ deadline = 0
    /\ nextFire = 0 /\ minTick = NoTick
    /\ gPc = "off" /\ gLast = 0 /\ gNow = 0

Init ==
    /\ InitSystem
    /\ aLeaves = <<>> /\ aBatch = <<>> /\ aOut = Nil
    /\ InitClock /\ minInterval = 1 /\ maxInterval = 1

(***************************************************************************)
(* Contexts.                                                               *)
(***************************************************************************)
\* Initialize runs under the ambient context ctx; CreateEpoch runs under
\* ctxTime, derived from ctx with a timeout of minInterval.
AmbientDone == cancelled
EpochCtxDone == cancelled \/ expired

\* What an RPC issued under a context can do: fail, or succeed unless the
\* context is done.
Outcomes(done) == IF done THEN {FALSE} ELSE BOOLEAN

(***************************************************************************)
(* Initialize.                                                             *)
(***************************************************************************)
\* A weaker condition Initialize does NOT use: either tree being empty.
InitializeQueues_either(treeSize, mapRevision) == treeSize = 0 \/ mapRevision = 0

\* The condition under which Initialize adds the empty map root to the log.
InitializeQueues(treeSize, mapRevision) == treeSize = 0 /\ mapRevision = 0

\* StartSigning enters Initialize.
StartSigning ==
    /\ pc = "StartSigning"
    /\ pc' = "Initialize_GetLatestSignedLogRoot"
    /\ calls' = <<>>
    /\ initErr' = "none"
    /\ UNCHANGED <<mapVars, logVars, table, retTo, logRootSize, initMapRoot,
                   initQueued, ceVars, chVars,
                   lastEpoch, restarted, ctxVars, aVars, tVars, hVars, dVars>>

Initialize_GetLatestSignedLogRoot ==
    /\ pc = "Initialize_GetLatestSignedLogRoot"
    /\ calls' = Append(calls, "GetLatestSignedLogRoot")
    /\ \E ok \in Outcomes(AmbientDone) :
        IF ok
        THEN /\ logRootSize' = logTreeSize
             /\ pc' = "Initialize_GetSignedMapRoot"
             /\ UNCHANGED initErr
        ELSE /\ initErr' = "err"
             /\ pc' = "StartSigning_GetSignedMapRoot"
             /\ UNCHANGED logRootSize
    /\ UNCHANGED <<mapVars, logVars, table, retTo, initMapRoot, initQueued,
                   ceVars, chVars,
                   lastEpoch, restarted, ctxVars, aVars, tVars, hVars, dVars>>

Initialize_GetSignedMapRoot ==
    /\ pc = "Initialize_GetSignedMapRoot"
    /\ calls' = Append(calls, "GetSignedMapRoot")
    /\ \E ok \in Outcomes(AmbientDone) :
        IF ~ok
        THEN /\ initErr' = "err"
             /\ pc' = "StartSigning_GetSignedMapRoot"
             /\ UNCHANGED initMapRoot
        ELSE /\ initMapRoot' = mapRoot
             /\ IF InitializeQueues(logRootSize, mapRoot.map_revision)
                THEN /\ pc' = "Initialize_queueLogLeaf"
                     /\ UNCHANGED initErr
                ELSE /\ initErr' = "ok"
                     /\ pc' = "StartSigning_GetSignedMapRoot"
    /\ UNCHANGED <<mapVars, logVars, table, retTo, logRootSize, initQueued,
                   ceVars, chVars,
                   lastEpoch, restarted, ctxVars, aVars, tVars, hVars, dVars>>

\* queueLogLeaf(ctx, s.tlog, s.logID, mapRoot.GetMapRoot()).
Initialize_queueLogLeaf ==
    /\ pc = "Initialize_queueLogLeaf"
    /\ calls' = Append(calls, "QueueLeaf")
    /\ \E ok \in Outcomes(AmbientDone) :
        IF ok
        THEN /\ logLeaves' = QueueLeafLog(logLeaves, LogLeaf(initMapRoot))
             /\ initQueued' = initQueued + 1
             /\ initErr' = "ok"
        ELSE /\ initErr' = "err"
             /\ UNCHANGED <<logLeaves, initQueued>>
    /\ pc' = "StartSigning_GetSignedMapRoot"
    /\ UNCHANGED <<mapVars, logTreeSize, table, retTo, logRootSize, initMapRoot,
                   ceVars, chVars,
                   lastEpoch, restarted, ctxVars, aVars, tVars, hVars, dVars>>

(***************************************************************************)
(* CreateEpoch.                                                            *)
(***************************************************************************)
\* Two tests CreateEpoch does NOT make: one that ignores the caller's request,
\* one that never stops on an empty batch.
NothingToDo_ignoringForce(batch, force) == Len(batch) = 0
NothingToDo_never(batch, force) == FALSE

\* "Don't create epoch if there is nothing to process unless explicitly
\* specified by caller".
NothingToDo(batch, force) == Len(batch) = 0 /\ ~force

\* mutations and indexes built from mRange; no proof bound yet.
MutationsOf(batch) == [i \in 1..Len(batch) |-> [Update |-> batch[i], Proof |-> Nil]]
IndexesOf(batch) == [i \in 1..Len(batch) |-> batch[i].key]

\* leaves = the leaves of the response; mutations[i].Proof = m.
LeavesOf(getResp) == [i \in 1..Len(getResp) |-> getResp[i].Leaf]
BindProofs(muts, getResp) ==
    [i \in 1..Len(muts) |->
        IF i <= Len(getResp) THEN [muts[i] EXCEPT !.Proof = getResp[i]] ELSE muts[i]]

\* A request CreateEpoch does NOT send: its watermark counts the leaves
\* written instead of carrying the highest sequence number read.
SetMapLeavesRequest_countingLeaves(leaves, maxSequence) ==
    [Leaves |-> leaves,
     MapperData |-> [HighestFullyCompletedSeq |-> Cardinality(leaves)]]

\* The SetLeaves request: the new leaves and, as MapperData, the highest
\* sequence number newMutations read.
SetMapLeavesRequest(leaves, maxSequence) ==
    [Leaves |-> leaves,
     MapperData |-> [HighestFullyCompletedSeq |-> maxSequence]]

\* The sequence numbers of a batch ReadAll returned for startSequence: the
\* mutations above startSequence, in sequence order.
SequencesOf(start, batch) == {start + i : i \in 1..Len(batch)}

\* "MapRevisions start at 1. Log leave's index starts at 0."
respEpoch(mapRevision) == mapRevision - 1

\* The epoch reported in the summary.
EpochOf(rev) == rev

GetMutationsResponse(rev, smr, treeSize, leafIndex, muts) ==
    [Epoch |-> EpochOf(rev),
     Smr |-> smr,
     LogRoot |-> [TreeSize |-> treeSize],
     LogInclusion |-> [LeafIndex |-> leafIndex, TreeSize |-> treeSize],
     Mutations |-> muts]

\* CreateEpoch returns (res, e) to its caller.
Return(res, e) ==
    /\ result' = res
    /\ err' = e
    /\ pc' = retTo

CreateEpoch_GetSignedMapRoot ==
    /\ pc = "CreateEpoch_GetSignedMapRoot"
    /\ calls' = Append(calls, "GetSignedMapRoot")
    /\ \E ok \in Outcomes(EpochCtxDone) :
        IF ok
        THEN /\ startSequence' = mapRoot.highest_fully_completed_seq
             /\ revision' = mapRoot.map_revision
             /\ startRevision' = mapRoot.map_revision
             /\ pc' = "CreateEpoch_newMutations"
             /\ UNCHANGED <<result, err>>
        ELSE /\ Return(Nil, "GetSignedMapRoot")
             /\ UNCHANGED <<startSequence, revision, startRevision>>
    /\ UNCHANGED <<mapVars, logVars, table, retTo, iniVars, forceNewEpoch, mRange,
                   seq, mutations, newLeaves, mutateCalls, setResp, secondTreeSize,
                   atCall, chVars, lastEpoch, restarted, ctxVars, aVars, tVars, hVars, dVars>>

\* newMutations: NewTxn, ReadAll, then Commit (Rollback when ReadAll fails),
\* followed by the empty-batch test of CreateEpoch.
CreateEpoch_newMutations ==
    /\ pc = "CreateEpoch_newMutations"
    /\ \E outcome \in IF EpochCtxDone THEN {"NewTxn"}
                      ELSE {"NewTxn", "ReadAll", "Commit", "ok"} :
        LET read == ReadAll(table, startSequence) IN
        /\ calls' = calls \o
                (CASE outcome = "NewTxn" -> <<"NewTxn">>
                   [] outcome = "ReadAll" -> <<"NewTxn", "ReadAll", "Rollback">>
                   [] OTHER -> <<"NewTxn", "ReadAll", "Commit">>)
        /\ IF outcome # "ok"
           THEN /\ Return(Nil, outcome)
                /\ UNCHANGED <<mRange, seq, mutations>>
           ELSE /\ mRange' = read.mutations
                /\ seq' = read.maxSequence
                /\ IF NothingToDo(read.mutations, forceNewEpoch)
                   THEN /\ Return(Nil, "none")
                        /\ UNCHANGED mutations
                   ELSE /\ mutations' = MutationsOf(read.mutations)
                        /\ pc' = "CreateEpoch_GetLeaves"
                        /\ UNCHANGED <<result, err>>
    /\ UNCHANGED <<mapVars, logVars, table, retTo, iniVars, forceNewEpoch,
                   startSequence, revision, startRevision, atCall, newLeaves, mutateCalls, setResp,
                   secondTreeSize, chVars, lastEpoch, restarted, ctxVars, aVars, tVars, hVars, dVars>>

\* GetLeaves, then the local work up to the SetLeaves call: binding the
\* proofs and applyMutations.
CreateEpoch_GetLeaves ==
    /\ pc = "CreateEpoch_GetLeaves"
    /\ calls' = Append(calls, "GetLeaves")
    /\ \E ok \in Outcomes(EpochCtxDone) :
        IF ok
        THEN LET getResp == GetLeavesResponse(mapLeaves, mapRoot.map_revision,
                                              IndexesOf(mRange))
             IN /\ mutations' = BindProofs(mutations, getResp)
                /\ newLeaves' = applyMutations(mRange, LeavesOf(getResp)).ret
                /\ mutateCalls' =
                        applyMutations(mRange, LeavesOf(getResp)).mutateCalls
                /\ pc' = "CreateEpoch_SetLeaves"
                /\ UNCHANGED <<result, err>>
        ELSE /\ Return(Nil, "GetLeaves")
             /\ UNCHANGED <<mutations, newLeaves, mutateCalls>>
    /\ UNCHANGED <<mapVars, logVars, table, retTo, iniVars, forceNewEpoch,
                   startSequence, revision, startRevision, atCall, mRange, seq, setResp,
                   secondTreeSize, chVars, lastEpoch, restarted, ctxVars, aVars, tVars, hVars, dVars>>

\* A SetLeaves step CreateEpoch does NOT have: a failed SetLeaves is tried a
\* second time before the error is returned.
CreateEpoch_SetLeaves_retrying ==
    /\ pc = "CreateEpoch_SetLeaves"
    /\ \E ok \in Outcomes(EpochCtxDone) :
        IF ok
        THEN LET req == SetMapLeavesRequest(newLeaves, seq)
                 smr == SMR(mapRoot.map_revision + 1,
                            req.MapperData.HighestFullyCompletedSeq)
             IN /\ calls' = Append(calls, "SetLeaves")
                /\ mapRoot' = smr
                /\ mapLeaves' = SetLeavesStore(mapLeaves, req.Leaves)
                /\ setResp' = smr
                /\ revision' = smr.map_revision
                /\ applied' = Append(applied, SequencesOf(startSequence, mRange))
                /\ pc' = "CreateEpoch_queueLogLeaf"
                /\ UNCHANGED <<result, err>>
        ELSE /\ calls' = calls \o <<"SetLeaves", "SetLeaves">>
             /\ Return(Nil, "SetLeaves")
             /\ UNCHANGED <<mapVars, setResp, revision, applied>>
    /\ UNCHANGED <<logVars, table, retTo, iniVars, forceNewEpoch, startSequence,
                   startRevision, atCall, mRange, seq, mutations, newLeaves,
                   mutateCalls, secondTreeSize, chVars, lastEpoch, restarted, ctxVars, aVars, tVars,
                   marshalFailed, dVars>>

CreateEpoch_SetLeaves ==
    /\ pc = "CreateEpoch_SetLeaves"
    /\ calls' = Append(calls, "SetLeaves")
    /\ \E ok \in Outcomes(EpochCtxDone) :
        IF ok
        THEN LET req == SetMapLeavesRequest(newLeaves, seq)
                 smr == SMR(mapRoot.map_revision + 1,
                            req.MapperData.HighestFullyCompletedSeq)
             IN /\ mapRoot' = smr
                /\ mapLeaves' = SetLeavesStore(mapLeaves, req.Leaves)
                /\ setResp' = smr
                /\ revision' = smr.map_revision
                /\ applied' = Append(applied, SequencesOf(startSequence, mRange))
                /\ pc' = "CreateEpoch_queueLogLeaf"
                /\ UNCHANGED <<result, err>>
        ELSE /\ Return(Nil, "SetLeaves")
             /\ UNCHANGED <<mapVars, setResp, revision, applied>>
    /\ UNCHANGED <<logVars, table, retTo, iniVars, forceNewEpoch, startSequence,
                   startRevision, atCall, mRange, seq, mutations, newLeaves, mutateCalls,
                   secondTreeSize, chVars, lastEpoch, restarted, ctxVars, aVars, tVars,
                   marshalFailed, dVars>>

CreateEpoch_queueLogLeaf ==
    /\ pc = "CreateEpoch_queueLogLeaf"
    /\ calls' = Append(calls, "QueueLeaf")
    /\ queueLeafCtx' = IF EpochCtxDone THEN "done" ELSE "live"
    /\ \E ok \in Outcomes(EpochCtxDone) :
        IF ok
        THEN /\ logLeaves' = QueueLeafLog(logLeaves, LogLeaf(setResp))
             /\ pc' = "logProofs_GetLatestSignedLogRoot"
             /\ UNCHANGED <<result, err>>
        ELSE /\ Return(Nil, "QueueLeaf")
             /\ UNCHANGED logLeaves
    /\ UNCHANGED <<mapVars, logTreeSize, table, retTo, iniVars, forceNewEpoch,
                   startSequence, revision, startRevision, atCall, mRange, seq, mutations,
                   newLeaves, mutateCalls, setResp, secondTreeSize, chVars, lastEpoch,
                   restarted, cancelled, expired, aVars, tVars, hVars, dVars>>

\* logProofs(ctx, 0, respEpoch): firstTreeSize is 0, so no consistency proof
\* is requested.
logProofs_GetLatestSignedLogRoot ==
    /\ pc = "logProofs_GetLatestSignedLogRoot"
    /\ calls' = Append(calls, "GetLatestSignedLogRoot")
    /\ \E ok \in Outcomes(EpochCtxDone) :
        IF ok
        THEN /\ secondTreeSize' = logTreeSize
             /\ pc' = "logProofs_GetInclusionProof"
             /\ UNCHANGED <<result, err>>
        ELSE /\ Return(Nil, "GetLatestSignedLogRoot")
             /\ UNCHANGED secondTreeSize
    /\ UNCHANGED <<mapVars, logVars, table, retTo, iniVars, forceNewEpoch,
                   startSequence, revision, startRevision, atCall, mRange, seq, mutations,
                   newLeaves, mutateCalls, setResp, chVars, lastEpoch, restarted, ctxVars, aVars, tVars, hVars, dVars>>

\* GetInclusionProof(LeafIndex: epoch, TreeSize: secondTreeSize): the log has
\* a proof only for a leaf inside the tree.
logProofs_GetInclusionProof ==
    /\ pc = "logProofs_GetInclusionProof"
    /\ calls' = Append(calls, "GetInclusionProof")
    /\ LET epoch == respEpoch(setResp.map_revision) IN
       \E ok \in Outcomes(EpochCtxDone) :
        IF ok /\ 0 <= epoch /\ epoch < secondTreeSize
        THEN Return(GetMutationsResponse(revision, setResp, secondTreeSize,
                                         epoch, mutations), "none")
        ELSE Return(Nil, "GetInclusionProof")
    /\ UNCHANGED <<mapVars, logVars, table, retTo, iniVars, forceNewEpoch,
                   startSequence, revision, startRevision, atCall, mRange, seq, mutations,
                   newLeaves, mutateCalls, setResp, secondTreeSize, chVars, lastEpoch,
                   restarted, ctxVars, aVars, tVars, hVars, dVars>>

(***************************************************************************)
(* StartSigning: the driver.                                               *)
(***************************************************************************)
\* A call of CreateEpoch(ctx, f) whose result is handled at `ret`.
CallCreateEpoch(f, ret) ==
    /\ pc' = "CreateEpoch_GetSignedMapRoot"
    /\ retTo' = ret
    /\ calls' = <<>>
    /\ forceNewEpoch' = f
    /\ atCall' = [mapRoot |-> mapRoot, logLeaves |-> logLeaves]
    /\ UNCHANGED <<startSequence, revision, startRevision, mRange, seq, mutations,
                   newLeaves, mutateCalls, setResp, secondTreeSize, result, err>>

\* The locals of a finished CreateEpoch go out of scope, and so does ctxTime
\* (cancel()).
ForgetEpoch ==
    /\ lastEpoch' = IF result # Nil THEN result.Epoch ELSE lastEpoch
    /\ retTo' = "none"
    /\ calls' = <<>>
    /\ forceNewEpoch' = FALSE
    /\ startSequence' = 0 /\ revision' = 0 /\ startRevision' = 0 /\ atCall' = Nil
    /\ mRange' = <<>> /\ seq' = 0 /\ mutations' = <<>> /\ newLeaves' = {}
    /\ mutateCalls' = <<>>
    /\ setResp' = Nil /\ secondTreeSize' = 0 /\ result' = Nil /\ err' = "none"
    /\ expired' = FALSE /\ queueLeafCtx' = "none"

\* Initialize has returned (its error is only logged). The first
\* GetSignedMapRoot of StartSigning; when it fails an epoch is created at once.
StartSigning_GetSignedMapRoot(maxRev) ==
    /\ pc = "StartSigning_GetSignedMapRoot"
    /\ initErr' = "none" /\ logRootSize' = 0 /\ initMapRoot' = Nil
    /\ UNCHANGED initQueued
    /\ \/ /\ ~EpochCtxDone
          /\ pc' = "StartSigning_loop"
          /\ calls' = <<>>
          /\ UNCHANGED <<retTo, ceVars>>
       \/ /\ mapRoot.map_revision < maxRev
          /\ CallCreateEpoch(TRUE, "StartSigning_reread")
    /\ UNCHANGED <<mapVars, logVars, table, chVars, lastEpoch, restarted, ctxVars, aVars, tVars, hVars, dVars>>

\* "Request map head again": whether or not it fails, the loop starts; the
\* result of the forced CreateEpoch is dropped.
StartSigning_reread ==
    /\ pc = "StartSigning_reread"
    /\ pc' = "StartSigning_loop"
    /\ ForgetEpoch
    /\ UNCHANGED <<mapVars, logVars, table, iniVars, chVars, restarted, cancelled,
                   aVars, tVars, hVars, dVars>>

\* A driver that takes the next tick while the previous result still waits
\* to be sent (the dispatch moved to a goroutine of its own).
StartSigning_loop_early(maxRev) ==
    /\ pc \in {"StartSigning_loop", "disseminateMutations"}
    /\ mapRoot.map_revision < maxRev
    /\ \E f \in BOOLEAN : CallCreateEpoch(f, "disseminateMutations")
    /\ UNCHANGED <<mapVars, logVars, table, iniVars, chVars, lastEpoch, restarted,
                   ctxVars, aVars, tVars, hVars, dVars>>

\* One value f received from genEpochTicks: CreateEpoch(ctxTime, f). The
\* model stops ticking once the map holds maxRev revisions or a subscriber
\* has received MaxDelivered messages.
StartSigning_loop(maxRev) ==
    /\ pc = "StartSigning_loop"
    /\ mapRoot.map_revision < maxRev
    /\ \A c \in DOMAIN delivered : Len(delivered[c]) < MaxDelivered
    /\ \E f \in BOOLEAN : CallCreateEpoch(f, "disseminateMutations")
    /\ UNCHANGED <<mapVars, logVars, table, iniVars, chVars, lastEpoch, restarted,
                   ctxVars, aVars, tVars, hVars, dVars>>

(***************************************************************************)
(* The dispatcher.                                                         *)
(***************************************************************************)
\* disseminateMutations(mutations), called with whatever CreateEpoch returned:
\* Lock, ch <- m for every registered channel in order (each subscriber
\* receives it), Unlock; then the loop waits for the next tick and the locals
\* of the finished CreateEpoch go out of scope.
SendAll(chans, got, m) ==
    [c \in Channels |->
        got[c] \o [i \in 1..Cardinality({j \in 1..Len(chans) : chans[j] = c}) |-> m]]

disseminateMutations ==
    /\ pc = "disseminateMutations"
    /\ mMux = "free"
    /\ delivered' = SendAll(mChannels, delivered, result)
    /\ pc' = "StartSigning_loop"
    /\ ForgetEpoch
    /\ UNCHANGED <<mapVars, logVars, table, iniVars, mChannels, mMux, restarted,
                   cancelled, aVars, tVars, hVars, dVars>>

\* Lock, append, Unlock: the channel is appended whether or not it is in the
\* list already. A registration matters to the driver only at its next
\* dispatch, so the model lets it happen right before one.
RegisterMutationsChannel(ch) ==
    /\ pc = "disseminateMutations"
    /\ mMux = "free"
    /\ Len(mChannels) < MaxRegistrations
    /\ mChannels' = Append(mChannels, ch)
    /\ UNCHANGED <<mapVars, logVars, table, pc, retTo, iniVars, ceVars, mMux,
                   delivered, calls, lastEpoch, restarted, ctxVars, aVars, tVars, hVars, dVars>>

\* A sequencer service handler registers its channel, once.
RegisterNewChannel(ch) ==
    /\ \A i \in 1..Len(mChannels) : mChannels[i] # ch
    /\ RegisterMutationsChannel(ch)

(***************************************************************************)
(* The dispatcher and a registration, statement by statement.              *)
(***************************************************************************)
\* s.mMux.Lock() of disseminateMutations, then the range expression
\* s.mChannels is evaluated, once.
disseminateMutations_Lock ==
    /\ pc = "disseminateMutations"
    /\ mMux = "free"
    /\ mMux' = "disseminateMutations"
    /\ dAtLock' = mChannels
    /\ dSent' = <<>>
    /\ pc' = "disseminateMutations_range"
    /\ UNCHANGED <<mapVars, logVars, table, retTo, iniVars, ceVars, mChannels,
                   delivered, calls, lastEpoch, restarted, ctxVars, aVars, tVars,
                   hVars, regPc, regCh>>

\* ch <- m for the next channel of the range: the step is taken when the
\* subscriber receives; until then the dispatcher is blocked in the send.
disseminateMutations_send ==
    /\ pc = "disseminateMutations_range"
    /\ Len(dSent) < Len(dAtLock)
    /\ LET ch == dAtLock[Len(dSent) + 1] IN
           /\ delivered' = [delivered EXCEPT ![ch] = Append(@, result)]
           /\ dSent' = Append(dSent, ch)
    /\ UNCHANGED <<mapVars, logVars, table, pc, retTo, iniVars, ceVars, mChannels,
                   mMux, calls, lastEpoch, restarted, ctxVars, aVars, tVars, hVars,
                   dAtLock, regPc, regCh>>

\* The range is exhausted: the deferred Unlock, the return to the loop,
\* cancel().
disseminateMutations_Unlock ==
    /\ pc = "disseminateMutations_range"
    /\ Len(dSent) = Len(dAtLock)
    /\ mMux' = "free"
    /\ dAtLock' = <<>>
    /\ dSent' = <<>>
    /\ pc' = "StartSigning_loop"
    /\ ForgetEpoch
    /\ UNCHANGED <<mapVars, logVars, table, iniVars, mChannels, delivered,
                   restarted, cancelled, aVars, tVars, hVars, regPc, regCh>>

\* A sequencer service handler calls RegisterMutationsChannel(ch) from its
\* own goroutine. The call touches s.mMux and s.mChannels only, which the
\* driver touches only in disseminateMutations, so the model lets the call
\* begin when the driver is at or in a dispatch.
RegisterMutationsChannel_call(ch) ==
    /\ regPc = "idle"
    /\ pc \in {"disseminateMutations", "disseminateMutations_range"}
    /\ Len(mChannels) < MaxRegistrations
    /\ regPc' = "Lock"
    /\ regCh' = ch
    /\ UNCHANGED <<mapVars, logVars, table, pc, retTo, iniVars, ceVars, chVars,
                   calls, lastEpoch, restarted, ctxVars, aVars, tVars, hVars,
                   dAtLock, dSent>>

\* A registration that does not wait for the mutex.
RegisterMutationsChannel_Lock_unguarded ==
    /\ regPc = "Lock"
    /\ mMux' = "RegisterMutationsChannel"
    /\ regPc' = "append"
    /\ UNCHANGED <<mapVars, logVars, table, pc, retTo, iniVars, ceVars, mChannels,
                   delivered, calls, lastEpoch, restarted, ctxVars, aVars, tVars,
                   hVars, dAtLock, dSent, regCh>>

\* s.mMux.Lock() of RegisterMutationsChannel.
RegisterMutationsChannel_Lock ==
    /\ regPc = "Lock"
    /\ mMux = "free"
    /\ mMux' = "RegisterMutationsChannel"
    /\ regPc' = "append"
    /\ UNCHANGED <<mapVars, logVars, table, pc, retTo, iniVars, ceVars, mChannels,
                   delivered, calls, lastEpoch, restarted, ctxVars, aVars, tVars,
                   hVars, dAtLock, dSent, regCh>>

\* s.mChannels = append(s.mChannels, ch), the deferred Unlock, the return.
RegisterMutationsChannel_append ==
    /\ regPc = "append"
    /\ mChannels' = Append(mChannels, regCh)
    /\ mMux' = "free"
    /\ regPc' = "idle"
    /\ regCh' = "none"
    /\ UNCHANGED <<mapVars, logVars, table, pc, retTo, iniVars, ceVars, delivered,
                   calls, lastEpoch, restarted, ctxVars, aVars, tVars, hVars,
                   dAtLock, dSent>>

(***************************************************************************)
(* Environment.                                                            *)
(***************************************************************************)
\* A client's update is written to the mutation table. The sequencer sees
\* the table only in ReadAll, so the model lets the write happen right
\* before a read.
SubmitMutation(m) ==
    /\ pc = "CreateEpoch_newMutations"
    /\ Len(table) < MaxMutations
    /\ table' = Append(table, m)
    /\ UNCHANGED <<mapVars, logVars, pc, retTo, iniVars, ceVars, chVars, calls,
                   lastEpoch, restarted, ctxVars, aVars, tVars, hVars, dVars>>

\* The log signer integrates the queued leaves into the tree. The sequencer
\* sees the tree size only in GetLatestSignedLogRoot, so the model lets the
\* integration happen right before one.
LogSequence ==
    /\ pc \in {"Initialize_GetLatestSignedLogRoot", "logProofs_GetLatestSignedLogRoot"}
    /\ logTreeSize < Len(logLeaves)
    /\ logTreeSize' = Len(logLeaves)
    /\ UNCHANGED <<mapVars, logLeaves, table, pc, retTo, iniVars, ceVars, chVars,
                   calls, lastEpoch, restarted, ctxVars, aVars, tVars, hVars, dVars>>

\* The process stops and is started again: a fresh Sequencer, StartSigning
\* from the top; map, log and mutation table persist. The model follows the
\* system through one restart. Every RPC of an epoch
\* may fail, so stopping between two epochs leaves the servers in every state
\* that stopping inside one can.
Restart ==
    /\ pc = "StartSigning_loop"
    /\ ~restarted
    /\ restarted' = TRUE
    /\ lastEpoch' = 0
    /\ pc' = "StartSigning"
    /\ retTo' = "none"
    /\ initErr' = "none" /\ logRootSize' = 0 /\ initMapRoot' = Nil
    /\ UNCHANGED initQueued
    /\ forceNewEpoch' = FALSE /\ startSequence' = 0 /\ revision' = 0
    /\ mRange' = <<>> /\ seq' = 0 /\ mutations' = <<>> /\ newLeaves' = {}
    /\ mutateCalls' = <<>>
    /\ setResp' = Nil /\ secondTreeSize' = 0 /\ result' = Nil /\ err' = "none"
    /\ startRevision' = 0 /\ atCall' = Nil
    /\ mChannels' = <<>> /\ mMux' = "free"
    /\ delivered' = [c \in Channels |-> <<>>]
    /\ calls' = <<>>
    /\ cancelled' = FALSE /\ expired' = FALSE /\ queueLeafCtx' = "none"
    /\ marshalFailed' = FALSE
    /\ dAtLock' = <<>> /\ dSent' = <<>> /\ regPc' = "idle" /\ regCh' = "none"
    /\ UNCHANGED <<mapVars, logVars, table, aVars, tVars, applied>>

\* The caller of StartSigning cancels the ambient context. The driver meets
\* the cancellation only in the RPCs it issues, all of which may fail at any
\* time, so the model lets it happen between two epochs.
Cancel ==
    /\ pc = "StartSigning_loop"
    /\ ~cancelled
    /\ cancelled' = TRUE
    /\ UNCHANGED <<mapVars, logVars, table, pc, retTo, iniVars, ceVars, chVars,
                   calls, lastEpoch, restarted, expired, queueLeafCtx, aVars, tVars, hVars, dVars>>

\* The timeout of ctxTime (minInterval) passes while CreateEpoch is between
\* SetLeaves and QueueLeaf. At any other point a passed deadline shows only
\* as the failure of the next RPC, which every RPC step already allows.
DeadlineExceeded ==
    /\ pc = "CreateEpoch_queueLogLeaf"
    /\ ~expired
    /\ expired' = TRUE
    /\ UNCHANGED <<mapVars, logVars, table, pc, retTo, iniVars, ceVars, chVars,
                   calls, lastEpoch, restarted, cancelled, queueLeafCtx, aVars, tVars, hVars, dVars>>

\* queueLogLeaf: json.Marshal(smr) returns an error, so no QueueLeaf request
\* is sent and CreateEpoch returns the error, after SetLeaves has written
\* the revision.
CreateEpoch_queueLogLeaf_Marshal ==
    /\ pc = "CreateEpoch_queueLogLeaf"
    /\ Return(Nil, "Marshal")
    /\ marshalFailed' = TRUE
    /\ UNCHANGED <<mapVars, logVars, table, retTo, iniVars, forceNewEpoch,
                   startSequence, revision, startRevision, atCall, mRange, seq,
                   mutations, newLeaves, mutateCalls, setResp, secondTreeSize,
                   chVars, calls, lastEpoch, restarted, ctxVars, aVars, tVars,
                   applied, dVars>>

NextUpTo(maxRev) ==
    \/ StartSigning
    \/ Initialize_GetLatestSignedLogRoot
    \/ Initialize_GetSignedMapRoot
    \/ Initialize_queueLogLeaf
    \/ StartSigning_GetSignedMapRoot(maxRev)
    \/ StartSigning_reread
    \/ StartSigning_loop(maxRev)
    \/ CreateEpoch_GetSignedMapRoot
    \/ CreateEpoch_newMutations
    \/ CreateEpoch_GetLeaves
    \/ CreateEpoch_SetLeaves
    \/ CreateEpoch_queueLogLeaf
    \/ logProofs_GetLatestSignedLogRoot
    \/ logProofs_GetInclusionProof
    \/ disseminateMutations
    \/ \E ch \in Channels : RegisterNewChannel(ch)
    \/ \E m \in SubmittedKVs : SubmitMutation(m)
    \/ LogSequence
    \/ Restart

Next == NextUpTo(MaxRev)

\* The sequencer with its collaborators.
Spec == Init /\ [][Next]_vars

\* The same system with the contexts it runs under: the ambient context may
\* be cancelled and the deadline of an epoch may pass.
NextCtx == Next \/ Cancel \/ DeadlineExceeded
SpecCtx == Init /\ [][NextCtx]_vars

\* The same system with callers that may register a channel again.
NextReg == Next \/ \E ch \in Channels : RegisterMutationsChannel(ch)
SpecReg == Init /\ [][NextReg]_vars

\* The same system with an SMR that json.Marshal may fail on.
NextMarshal == Next \/ CreateEpoch_queueLogLeaf_Marshal
SpecMarshal == Init /\ [][NextMarshal]_vars

\* The driver with the dispatcher and the registrations of two sequencer
\* service handlers interleaved statement by statement. What is dispatched
\* does not matter to the interleaving, so no update is submitted and every
\* epoch is an empty one.
Sinks == {"ch1", "ch2"}

InitDispatch ==
    /\ InitSequencer(Sinks)
    /\ aLeaves = <<>> /\ aBatch = <<>> /\ aOut = Nil
    /\ InitClock /\ minInterval = 1 /\ maxInterval = 1

NextDispatch ==
    \/ StartSigning
    \/ Initialize_GetLatestSignedLogRoot
    \/ Initialize_GetSignedMapRoot
    \/ Initialize_queueLogLeaf
    \/ StartSigning_GetSignedMapRoot(MaxRev)
    \/ StartSigning_reread
    \/ StartSigning_loop(MaxRev)
    \/ CreateEpoch_GetSignedMapRoot
    \/ CreateEpoch_newMutations
    \/ CreateEpoch_GetLeaves
    \/ CreateEpoch_SetLeaves
    \/ CreateEpoch_queueLogLeaf
    \/ logProofs_GetLatestSignedLogRoot
    \/ logProofs_GetInclusionProof
    \/ disseminateMutations_Lock
    \/ disseminateMutations_send
    \/ disseminateMutations_Unlock
    \/ \E ch \in Sinks : RegisterMutationsChannel_call(ch)
    \/ RegisterMutationsChannel_Lock
    \/ RegisterMutationsChannel_append
    \/ LogSequence

SpecDispatch == InitDispatch /\ [][NextDispatch]_vars

\* The same system followed for one more map revision.
NextLong == NextUpTo(MaxRev + 1)
SpecLong == Init /\ [][NextLong]_vars

(***************************************************************************)
(* applyMutations on its own: every batch of up to MaxBatch updates        *)
(* against every list of fetched leaves.                                   *)
(***************************************************************************)
ApplyKVs ==
    {SignedKV(k, v, p, TRUE) : k \in Keys, v \in Entries, p \in {NilEntry, 1}}
        \cup {SignedKV(KeyB, 1, NilEntry, FALSE)}
Batches == UNION {[1..n -> ApplyKVs] : n \in 0..MaxBatch}

\* What GetLeaves may have returned for an index: no leaf, a leaf that was
\* never set, a leaf holding entry 1, a leaf that does not parse.
Omitted == <<-1>>
FetchedValues == {Omitted, EmptyValue, ToLeafValue(1), CorruptValue}
LeavesFrom(a, b) ==
    SelectSeq(<<[Index |-> KeyA, LeafValue |-> a], [Index |-> KeyB, LeafValue |-> b]>>,
              LAMBDA l : l.LeafValue # Omitted)

InitApply ==
    /\ InitSystem
    /\ aBatch \in Batches
    /\ aLeaves \in {LeavesFrom(a, b) : a \in FetchedValues, b \in FetchedValues}
    /\ aOut = Nil
    /\ InitClock /\ minInterval = 1 /\ maxInterval = 1

Apply ==
    /\ aOut = Nil
    /\ aOut' = applyMutations(aBatch, aLeaves)
    /\ UNCHANGED <<mapVars, logVars, table, pc, retTo, iniVars, ceVars, chVars,
                   calls, lastEpoch, restarted, ctxVars, aLeaves, aBatch, tVars, hVars, dVars>>

SpecApply == InitApply /\ [][Apply]_vars

(***************************************************************************)
(* Properties of applyMutations (specification SpecApply).                 *)
(***************************************************************************)
\* The mutations of the batch aimed at padded index p.
BatchAt(p) == {i \in 1..Len(aBatch) : toArray(aBatch[i].key) = p}
\* Those of them the Mutator accepted.
AcceptedAt(p) ==
    {i \in BatchAt(p) : aOut.mutateCalls[i].invoked /\ ~aOut.mutateCalls[i].err}
\* The entry the fetched leaves hold for padded index p, as applyMutations
\* reads it: no leaf gives a nil entry.
FetchedEntry(p) ==
    LET leaf == LeafMapOf(aLeaves)[p]
    IN IF leaf = NoLeaf THEN [err |-> FALSE, entry |-> NilEntry]
       ELSE FromLeafValue(leaf.LeafValue)

\* C3: the returned leaves hold each padded index at most once; an index is
\* among them exactly when the Mutator accepted some mutation of the batch for
\* it; and the leaf kept for it carries the key and the Mutator result of the
\* last accepted mutation for it, in batch order.
C3_LastValidMutationWins ==
    aOut # Nil =>
        /\ Len(aOut.mutateCalls) = Len(aBatch)
        /\ \A l1, l2 \in aOut.ret : toArray(l1.Index) = toArray(l2.Index) => l1 = l2
        /\ \A p \in PaddedIndexes :
            /\ (\E l \in aOut.ret : toArray(l.Index) = p) <=> AcceptedAt(p) # {}
            /\ AcceptedAt(p) # {} =>
                LET last == Max(AcceptedAt(p))
                    res == Mutate(aOut.mutateCalls[last].oldValue, aBatch[last])
                IN /\ ~res.err
                   /\ [Index |-> aBatch[last].key, LeafValue |-> res.value] \in aOut.ret

\* C3's case: two accepted mutations of one index with different results;
\* the result of the later one is the only leaf returned.
C3_Witness ==
    /\ aOut # Nil
    /\ \E p \in PaddedIndexes : \E i, j \in AcceptedAt(p) :
        /\ i < j
        /\ aOut.mutateCalls[i].value # aOut.mutateCalls[j].value
        /\ aOut.ret = {[Index |-> aBatch[j].key, LeafValue |-> aOut.mutateCalls[j].value]}

\* C4 as stated: the Mutator is invoked for a mutation with, as prior entry,
\* the entry produced by the most recent earlier accepted mutation of the same
\* index in the batch, and with the entry of the fetched leaf only when there
\* is no such earlier mutation.
C4_PriorEntryIsChained ==
    aOut # Nil =>
        \A i \in 1..Len(aBatch) :
            aOut.mutateCalls[i].invoked =>
                LET p == toArray(aBatch[i].key)
                    earlier == {j \in AcceptedAt(p) : j < i}
                IN aOut.mutateCalls[i].oldValue =
                        IF earlier # {}
                        THEN FromLeafValue(aOut.mutateCalls[Max(earlier)].value).entry
                        ELSE FetchedEntry(p).entry

\* C4 as the code has it: whatever earlier mutations of the batch did, the
\* Mutator is invoked with the entry of the leaf fetched from the map (nil when
\* no leaf was fetched for the index), and is not invoked at all exactly when
\* that leaf does not parse. Only the returned leaf is overwritten on success.
C4_PriorEntryIsFetchedLeaf ==
    aOut # Nil =>
        /\ Len(aOut.mutateCalls) = Len(aBatch)
        /\ \A i \in 1..Len(aBatch) :
            LET fetched == FetchedEntry(toArray(aBatch[i].key))
            IN /\ aOut.mutateCalls[i].invoked <=> ~fetched.err
               /\ aOut.mutateCalls[i].invoked =>
                    /\ aOut.mutateCalls[i].oldValue = fetched.entry
                    /\ aOut.mutateCalls[i].err = Mutate(fetched.entry, aBatch[i]).err

\* C4's case: a later mutation of an index follows an accepted one, and the
\* Mutator is invoked for it with a prior entry that is not the entry the
\* accepted one produced.
C4_Witness ==
    /\ aOut # Nil
    /\ \E p \in PaddedIndexes : \E j \in AcceptedAt(p) : \E i \in BatchAt(p) :
        /\ j < i
        /\ aOut.mutateCalls[i].invoked
        /\ aOut.mutateCalls[i].oldValue # FromLeafValue(aOut.mutateCalls[j].value).entry
        /\ aOut.mutateCalls[i].oldValue = FetchedEntry(p).entry

(***************************************************************************)
(* Properties of the sequencer (specifications Spec and SpecLong).         *)
(***************************************************************************)
\* CreateEpoch has returned and its caller has not yet dropped the result.
Returned == pc \in {"disseminateMutations", "StartSigning_reread"}
\* The running (or just returned) Initialize / CreateEpoch issued this RPC.
Called(rpc) == \E i \in 1..Len(calls) : calls[i] = rpc
TimesCalled(rpc) == Cardinality({i \in 1..Len(calls) : calls[i] = rpc})
InLog(leaf) == \E i \in 1..Len(logLeaves) : logLeaves[i] = leaf

\* C1 as stated: a CreateEpoch that returns a summary reports the revision
\* one above the map revision it started from; one that returns nil without
\* error, or fails before SetLeaves, leaves the map revision as it was; and so
\* the summaries one sequencer returns number 1 apart: each carries the epoch
\* of the summary before it plus one.
C1_SummariesIncreaseByOne ==
    Returned =>
        /\ result # Nil =>
            /\ result.Epoch = startRevision + 1
            /\ result.Epoch = atCall.mapRoot.map_revision + 1
            /\ result.Smr.map_revision = result.Epoch
        /\ (result = Nil /\ err \in {"none", "GetSignedMapRoot", "NewTxn", "ReadAll",
                                     "Commit", "GetLeaves"}) =>
            mapRoot.map_revision = atCall.mapRoot.map_revision
        /\ (result # Nil /\ lastEpoch # 0) => result.Epoch = lastEpoch + 1

Rejected == {k \in 1..Len(mutateCalls) : mutateCalls[k].invoked /\ mutateCalls[k].err}
\* What applyMutations returns for the batch without its k-th mutation,
\* against the leaves GetLeaves returns for that batch.
LeavesWithout(k) ==
    LET batch == RemoveAt(mRange, k)
    IN applyMutations(batch,
            LeavesOf(GetLeavesResponse(mapLeaves, mapRoot.map_revision,
                                       IndexesOf(batch)))).ret

\* C5: a mutation the Mutator rejects does not stop the epoch. With the k-th
\* of N mutations rejected CreateEpoch goes on to SetLeaves; the leaves it
\* asks SetLeaves to write are at most N-1 and are the leaves it would write
\* for the batch without the k-th mutation; and when no RPC fails it returns
\* a summary of all N mutations for the next revision.
C5_SkipOnInvalid ==
    \A k \in Rejected :
        /\ pc = "CreateEpoch_SetLeaves" \/ Called("SetLeaves")
        /\ Cardinality(newLeaves) <= Len(mRange) - 1
        /\ pc = "CreateEpoch_SetLeaves" => newLeaves = LeavesWithout(k)
        /\ (Returned /\ err = "none") =>
            /\ result # Nil
            /\ Len(result.Mutations) = Len(mRange)
            /\ mapRoot.map_revision = atCall.mapRoot.map_revision + 1

\* C5's case: an epoch whose batch held a rejected mutation next to an
\* accepted one has completed with a summary, the accepted one written.
C5_Witness ==
    /\ Returned /\ result # Nil
    /\ Rejected # {}
    /\ newLeaves # {}
    /\ \A l \in newLeaves : mapLeaves[toArray(l.Index)] = l.LeafValue

\* C6: CreateEpoch called with force, reading an empty batch and failing at no
\* RPC, produces an epoch: SetLeaves is called with no leaves, the map is one
\* revision further, the new map root is queued to the log, and the summary
\* returned lists no mutations.
C6_ForcedEmptyEpoch ==
    (Returned /\ forceNewEpoch /\ mRange = <<>> /\ err = "none") =>
        /\ result # Nil
        /\ result.Mutations = <<>>
        /\ TimesCalled("SetLeaves") = 1 /\ newLeaves = {}
        /\ mapRoot.map_revision = atCall.mapRoot.map_revision + 1
        /\ result.Smr = mapRoot /\ result.Epoch = mapRoot.map_revision
        /\ TimesCalled("QueueLeaf") = 1
        /\ logLeaves = Append(atCall.logLeaves, LogLeaf(mapRoot))

\* C6's case: a forced CreateEpoch over an empty mutation table has returned
\* its summary.
C6_Witness ==
    /\ Returned /\ forceNewEpoch /\ mRange = <<>> /\ err = "none"
    /\ table = <<>>
    /\ result # Nil /\ result.Mutations = <<>>

\* C7: CreateEpoch called without force and reading an empty batch returns
\* nil; it has called none of GetLeaves, SetLeaves and QueueLeaf, and the map
\* and the log are as they were when it was called.
C7_UnforcedEmptyReturnsNil ==
    (Returned /\ ~forceNewEpoch /\ err = "none" /\ mRange = <<>>) =>
        /\ result = Nil
        /\ ~Called("GetLeaves") /\ ~Called("SetLeaves") /\ ~Called("QueueLeaf")
        /\ mapRoot = atCall.mapRoot
        /\ logLeaves = atCall.logLeaves

\* C7's case: an unforced CreateEpoch has read an empty batch and returned.
C7_Witness ==
    /\ Returned /\ ~forceNewEpoch /\ err = "none" /\ mRange = <<>>
    /\ Called("ReadAll") /\ Called("Commit")
    /\ result = Nil

\* C8 as stated: a subscriber receives something only for a tick whose
\* CreateEpoch returned a summary; no message is a nil one.
C8_OnlySummariesDelivered ==
    \A c \in Channels : \A i \in 1..Len(delivered[c]) : delivered[c][i] # Nil

\* C9 as stated: with the log bootstrapped by Initialize from an empty map
\* and an empty log, the summary of a successful CreateEpoch carries the
\* inclusion proof of log index smr'.map_revision - 1, and the leaf at that
\* index is the serialization of smr' with its SHA-256 as identity hash.
\* (Log index i is position i + 1 of logLeaves.)
C9_LogLeafAtRevisionMinusOne ==
    (/\ Returned /\ result # Nil
     /\ logLeaves # <<>> /\ logLeaves[1] = LogLeaf(SMR(0, 0))) =>
        LET index == result.Smr.map_revision - 1
        IN /\ result.LogInclusion.LeafIndex = index
           /\ index + 1 <= Len(logLeaves)
           /\ logLeaves[index + 1] = LogLeaf(result.Smr)

C11_InitializeErrorsOnDisagreement ==
    (pc = "StartSigning_GetSignedMapRoot" /\ initMapRoot # Nil) =>
        LET logEmpty == logRootSize = 0
            mapEmpty == initMapRoot.map_revision = 0
        IN /\ (logEmpty # mapEmpty) => initErr = "err"
           /\ (~logEmpty /\ ~mapEmpty) => initErr = "ok"
           /\ (logEmpty /\ mapEmpty /\ initErr = "ok") => InLog(LogLeaf(initMapRoot))

\* SetLeaves of the returned CreateEpoch wrote a revision and QueueLeaf put
\* its root in the log.
Anchored == setResp # Nil /\ InLog(LogLeaf(setResp))
\* The summaries among the messages a subscriber received.
SummariesOf(c) == SelectSeq(delivered[c], LAMBDA m : m # Nil)

\* C12 as stated: every epoch completed (revision written and anchored in
\* the log) reaches the subscribers: its CreateEpoch, be it the one forced
\* inside StartSigning or one whose proof fetch failed, hands the summary of
\* that revision to the dispatcher; and the summaries a subscriber has
\* received are in increasing revision order, none twice.
C12_CompletedEpochsAreDispatched ==
    /\ (Returned /\ Anchored) =>
        /\ pc = "disseminateMutations"
        /\ result # Nil
        /\ result.Smr = setResp
    /\ \A c \in Channels : \A i, j \in 1..Len(SummariesOf(c)) :
            i < j => SummariesOf(c)[i].Epoch < SummariesOf(c)[j].Epoch

\* C13: a CreateEpoch whose SetLeaves failed called SetLeaves once and
\* QueueLeaf not at all and returned no summary; the map root and the log are
\* as they were when it was called; and a read from the map root's watermark
\* (which is where the next CreateEpoch reads from) begins with the very
\* mutations of the failed epoch's batch.
C13_SetLeavesFailureAborts ==
    (Returned /\ err = "SetLeaves") =>
        /\ result = Nil
        /\ TimesCalled("SetLeaves") = 1
        /\ ~Called("QueueLeaf")
        /\ mapRoot = atCall.mapRoot
        /\ logLeaves = atCall.logLeaves
        /\ mapRoot.highest_fully_completed_seq = startSequence
        /\ LET again == ReadAll(table, mapRoot.highest_fully_completed_seq).mutations
           IN /\ Len(again) >= Len(mRange)
              /\ SubSeq(again, 1, Len(mRange)) = mRange

\* C13's case: SetLeaves failed for an epoch with a mutation in its batch.
C13_Witness ==
    /\ Returned /\ err = "SetLeaves"
    /\ mRange # <<>>
    /\ newLeaves # {}

\* C14 as stated: when the process has been started again and Initialize has
\* succeeded, the log holds the root of the map's head revision: a root left
\* out of the log by a failed QueueLeaf has been queued again.
C14_RestartRequeuesMissingRoot ==
    (restarted /\ pc = "StartSigning_GetSignedMapRoot" /\ initErr = "ok") =>
        InLog(LogLeaf(mapRoot))

(***************************************************************************)
(* Properties of the sequencer under its contexts (specification SpecCtx). *)
(***************************************************************************)
\* A CreateEpoch is running.
InCreateEpoch ==
    pc \in {"CreateEpoch_GetSignedMapRoot", "CreateEpoch_newMutations",
            "CreateEpoch_GetLeaves", "CreateEpoch_SetLeaves",
            "CreateEpoch_queueLogLeaf", "logProofs_GetLatestSignedLogRoot",
            "logProofs_GetInclusionProof"}

\* C16 as stated: once the ambient context is cancelled the driver loop
\* issues no further CreateEpoch call (and StartSigning goes on to return).
C16_NoEpochAfterCancellation ==
    cancelled => ~InCreateEpoch

\* C20 as stated: the QueueLeaf request of an epoch is never issued under a
\* context that is done: when the deadline has passed after SetLeaves, the
\* request is made under a fresh deadline, so the passed deadline by itself
\* does not keep the new root out of the log.
C20_QueueLeafUnderLiveDeadline ==
    /\ queueLeafCtx # "done"
    /\ (Returned /\ expired /\ setResp # Nil) => Called("QueueLeaf")

(***************************************************************************)
(* The driver in time: the clock, the ticker and genEpochTicks.            *)
(*                                                                         *)
(* The mutation table stays empty and every RPC succeeds (the steps that   *)
(* fail are left out), an RPC failing once the deadline of its context has *)
(* passed.  Time passes between any two steps, one unit at a time.         *)
(***************************************************************************)
sVars == <<mapVars, logVars, table, pc, retTo, iniVars, ceVars, chVars, calls,
           lastEpoch, restarted, ctxVars, aVars, hVars, dVars>>

\* mapRoot.GetTimestampNanos(): the time at which the root of revision rev was
\* written (the empty map of revision 0 at time 0). pubTime is brought up to
\* date whenever the clock moves, so a revision missing from it was written in
\* the current time unit.
TimestampOf(rev) ==
    IF rev = 0 THEN 0
    ELSE IF rev <= Len(pubTime) THEN pubTime[rev] ELSE now

\* A test genEpochTicks does NOT make: one that forces an epoch only once
\* maxElapsed has passed.
Enforce_late(t, last) == (t - last) >= maxInterval

\* (t.Sub(last) + minElapsed) >= maxElapsed
Enforce(t, last) == (t - last) + minInterval >= maxInterval

\* The loop is reached: last is taken from the map head, the ticker is
\* created and the goroutine of genEpochTicks is started.
genEpochTicks ==
    /\ pc = "StartSigning_loop"
    /\ gPc = "off"
    /\ gLast' = TimestampOf(mapRoot.map_revision)
    /\ nextFire' = now + minInterval
    /\ minTick' = NoTick
    /\ gPc' = "startup"
    /\ UNCHANGED <<sVars, now, minInterval, maxInterval, pubTime, deadline, gNow>>

\* "Do not wait for the first minDuration to pass but directly resume from
\* last": the clock is read and tested.
genEpochTicks_startup ==
    /\ gPc = "startup"
    /\ gNow' = now
    /\ gPc' = IF Enforce(now, gLast) THEN "enforce_startup" ELSE "minTick"
    /\ UNCHANGED <<sVars, now, minInterval, maxInterval, pubTime, deadline,
                   nextFire, minTick, gLast>>

\* last = t.Now(), after the true has been received.
genEpochTicks_last ==
    /\ gPc = "last"
    /\ gLast' = now
    /\ gPc' = "minTick"
    /\ UNCHANGED <<sVars, now, minInterval, maxInterval, pubTime, deadline,
                   nextFire, minTick, gNow>>

\* for now := range minTick
genEpochTicks_minTick ==
    /\ gPc = "minTick"
    /\ minTick # NoTick
    /\ gNow' = minTick
    /\ minTick' = NoTick
    /\ gPc' = "enforce"
    /\ UNCHANGED <<sVars, now, minInterval, maxInterval, pubTime, deadline,
                   nextFire, gLast>>

\* The value genEpochTicks is sending, at either of its two sends.
Enforced == gPc = "enforce_startup" \/ Enforce(gNow, gLast)

\* The driver receives f from the channel genEpochTicks sends on (the channel
\* has no buffer: the send and the receive are one step) and calls
\* CreateEpoch(ctxTime, f) under a deadline of minInterval; genEpochTicks goes
\* on, in the loop with last = now when it sent true.
StartSigning_tick ==
    /\ pc = "StartSigning_loop"
    /\ gPc \in {"enforce_startup", "enforce"}
    /\ mapRoot.map_revision < MaxRev
    /\ CallCreateEpoch(Enforced, "disseminateMutations")
    /\ deadline' = now + minInterval
    /\ gPc' = IF gPc = "enforce_startup" THEN "last" ELSE "minTick"
    /\ gLast' = IF gPc = "enforce" /\ Enforced THEN gNow ELSE gLast
    /\ UNCHANGED <<mapVars, logVars, table, iniVars, chVars, lastEpoch, restarted,
                   ctxVars, aVars, hVars, dVars, now, minInterval, maxInterval, pubTime,
                   nextFire, minTick, gNow>>

\* time.NewTicker(minInterval): every minInterval the current time is put on
\* the channel, and dropped when the last one has not been taken.
Ticker ==
    /\ gPc # "off"
    /\ now = nextFire
    /\ minTick' = IF minTick = NoTick THEN now ELSE minTick
    /\ nextFire' = nextFire + minInterval
    /\ UNCHANGED <<sVars, now, minInterval, maxInterval, pubTime, deadline,
                   gPc, gLast, gNow>>

\* One time unit passes. The ticker fires when it is due; the deadline of the
\* running CreateEpoch may pass.
AdvanceUpTo(maxTime) ==
    /\ now < maxTime
    /\ gPc # "off" => now < nextFire
    /\ now' = now + 1
    /\ pubTime' = pubTime \o [i \in 1..(mapRoot.map_revision - Len(pubTime)) |-> now]
    /\ expired' = (expired \/ (retTo = "disseminateMutations" /\ now + 1 >= deadline))
    /\ UNCHANGED <<mapVars, logVars, table, pc, retTo, iniVars, ceVars, chVars,
                   calls, lastEpoch, restarted, cancelled, queueLeafCtx, aVars,
                   hVars, dVars, minInterval, maxInterval, deadline, nextFire, minTick,
                   gPc, gLast, gNow>>

Advance == AdvanceUpTo(MaxTime)

\* No step other than an RPC is waiting to be taken: the goroutines are not
\* held up and the subscribers take what is sent to them.
Prompt ==
    /\ ~(pc = "StartSigning_loop" /\ gPc = "off")
    /\ gPc \notin {"startup", "last"}
    /\ ~(gPc = "minTick" /\ minTick # NoTick)
    /\ ~(/\ gPc \in {"enforce_startup", "enforce"}
         /\ pc = "StartSigning_loop" /\ mapRoot.map_revision < MaxRev)
    /\ pc # "disseminateMutations"

\* Time passes only in RPCs, and no RPC of an epoch outlasts its deadline.
TimelyAdvance == Prompt /\ AdvanceUpTo(MaxTimely) /\ ~expired'

\* An RPC step that succeeds.
Succeeds == err' = "none" /\ initErr' # "err" /\ retTo' # "StartSigning_reread"

InitTicks ==
    /\ InitSystem
    /\ aLeaves = <<>> /\ aBatch = <<>> /\ aOut = Nil
    /\ InitClock
    /\ minInterval \in 1..MaxIntervalLen
    /\ maxInterval \in minInterval..MaxIntervalLen

Driver ==
    \/ StartSigning
    \/ Initialize_GetLatestSignedLogRoot /\ Succeeds
    \/ Initialize_GetSignedMapRoot /\ Succeeds
    \/ Initialize_queueLogLeaf /\ Succeeds
    \/ StartSigning_GetSignedMapRoot(MaxRev) /\ Succeeds
    \/ genEpochTicks
    \/ genEpochTicks_startup
    \/ genEpochTicks_last
    \/ genEpochTicks_minTick
    \/ StartSigning_tick
    \/ CreateEpoch_GetSignedMapRoot /\ Succeeds
    \/ CreateEpoch_newMutations /\ Succeeds
    \/ CreateEpoch_GetLeaves /\ Succeeds
    \/ CreateEpoch_SetLeaves /\ Succeeds
    \/ CreateEpoch_queueLogLeaf /\ Succeeds
    \/ logProofs_GetLatestSignedLogRoot /\ Succeeds
    \/ logProofs_GetInclusionProof /\ Succeeds
    \/ disseminateMutations
    \/ LogSequence
    \/ Ticker

\* The driver with its tick generator, time passing at any point.
NextTicks == Driver \/ Advance
SpecTicks == InitTicks /\ [][NextTicks]_vars

\* The same with time passing only in RPCs.
NextTimely == Driver \/ TimelyAdvance
SpecTimely == InitTicks /\ [][NextTimely]_vars

(***************************************************************************)
(* Properties of registration (specification SpecReg).                     *)
(***************************************************************************)
\* C15 as stated: a channel registered again is in the subscriber list once,
\* and so no summary is sent to it twice.
C15_RegistrationIsIdempotent ==
    /\ \A i, j \in 1..Len(mChannels) : mChannels[i] = mChannels[j] => i = j
    /\ \A c \in Channels : \A i, j \in 1..Len(SummariesOf(c)) :
            SummariesOf(c)[i].Epoch = SummariesOf(c)[j].Epoch => i = j

(***************************************************************************)
(* Properties of the driver loop (specification Spec).                     *)
(***************************************************************************)
Registrations(c) == Cardinality({j \in 1..Len(mChannels) : mChannels[j] = c})

\* C19: CreateEpoch is entered only by the driver and only when no CreateEpoch
\* is in flight and no result waits to be sent; the driver leaves the dispatch
\* of a result only for the head of the loop, and by then every registered
\* channel has received that result (once per registration) after everything
\* it had received before: nothing is dropped.
C19_EpochsAreSerialized ==
    [][/\ (pc' = "CreateEpoch_GetSignedMapRoot" /\ pc' # pc) =>
              /\ pc \in {"StartSigning_GetSignedMapRoot", "StartSigning_loop"}
              /\ retTo = "none" /\ result = Nil
       /\ (pc = "disseminateMutations" /\ pc' # pc) =>
              /\ pc' = "StartSigning_loop"
              /\ \A c \in Channels :
                    /\ Len(delivered'[c]) = Len(delivered[c]) + Registrations(c)
                    /\ SubSeq(delivered'[c], 1, Len(delivered[c])) = delivered[c]
                    /\ \A k \in (Len(delivered[c]) + 1)..Len(delivered'[c]) :
                            delivered'[c][k] = result
      ]_vars

\* A second epoch of the loop is under way, and the summary of the one before
\* it is the last thing the subscriber received.
C19_Witness ==
    /\ InCreateEpoch /\ retTo = "disseminateMutations"
    /\ lastEpoch > 0
    /\ \E c \in Channels :
          /\ Registrations(c) > 0
          /\ delivered[c] # <<>>
          /\ delivered[c][Len(delivered[c])] # Nil
          /\ delivered[c][Len(delivered[c])].Epoch = lastEpoch

(***************************************************************************)
(* Properties of the tick generator (specification SpecTicks).             *)
(***************************************************************************)
\* What every step does to the tick generator, the assignment to last after
\* the true of the startup set aside: the startup test sends true iff
\* now - last + minInterval >= maxInterval and sends nothing otherwise, last
\* unchanged; each value t taken from the ticker is answered by one boolean,
\* true with last := t iff t - last + minInterval >= maxInterval, else false
\* with last unchanged; and the driver starts an epoch of the loop only with
\* a boolean the generator sent.
TickRules ==
    /\ (gPc = "startup" /\ gPc' # gPc) =>
          /\ gPc' = IF (now - gLast) + minInterval >= maxInterval
                    THEN "enforce_startup" ELSE "minTick"
          /\ gLast' = gLast /\ pc' = pc
    /\ (gPc = "enforce_startup" /\ gPc' # gPc) =>
          /\ forceNewEpoch' = TRUE /\ pc' = "CreateEpoch_GetSignedMapRoot"
          /\ gPc' = "last" /\ gLast' = gLast
    /\ (gPc = "last" /\ gPc' # gPc) => gPc' = "minTick" /\ pc' = pc
    /\ (gPc = "minTick" /\ gPc' # gPc) =>
          /\ gPc' = "enforce" /\ gNow' = minTick /\ minTick # NoTick
          /\ gLast' = gLast /\ pc' = pc
    /\ (gPc = "enforce" /\ gPc' # gPc) =>
          LET f == (gNow - gLast) + minInterval >= maxInterval
          IN /\ forceNewEpoch' = f /\ pc' = "CreateEpoch_GetSignedMapRoot"
             /\ gLast' = (IF f THEN gNow ELSE gLast)
             /\ gPc' = "minTick"
    /\ (pc = "StartSigning_loop" /\ pc' # pc) =>
          gPc \in {"enforce_startup", "enforce"} /\ gPc' # gPc
    /\ gLast' # gLast => gPc \in {"off", "last", "enforce"}

\* C17 as stated: TickRules, and after the true of the startup last is the
\* now that was tested.
C17_LastIsTheTimeTested ==
    [][TickRules /\ ((gPc = "last" /\ gPc' # gPc) => gLast' = gNow)]_vars

\* C17, amended: TickRules, and after the true of the startup last is the
\* clock read again once the true has been received, which is no earlier
\* than the now that was tested.
C17_LastIsReadAgain ==
    [][TickRules /\ ((gPc = "last" /\ gPc' # gPc) => gLast' = now /\ gLast' >= gNow)]_vars

\* The startup has sent true and set last, to a time later than the one it
\* tested; no tick has been taken since.
C17_Witness == gPc = "minTick" /\ gLast > gNow

(***************************************************************************)
(* Properties of the publication times (specification SpecTimely).         *)
(***************************************************************************)
\* The revisions the driver has written.
Published == 1..mapRoot.map_revision

\* C18 as stated: two consecutive revisions are never further apart than
\* maxInterval.
C18_GapWithinMaxInterval ==
    \A r \in Published :
        (r + 1) \in Published => TimestampOf(r + 1) - TimestampOf(r) <= maxInterval

\* C18, amended: two consecutive revisions are less than
\* maxInterval + minInterval apart, and while the driver runs less than that
\* passes after a revision without the next one.
C18_GapWithinMaxPlusMinInterval ==
    /\ \A r \in Published :
          (r + 1) \in Published =>
              TimestampOf(r + 1) - TimestampOf(r) < maxInterval + minInterval
    /\ (gPc # "off" /\ mapRoot.map_revision \in 1..(MaxRev - 1)) =>
          now - TimestampOf(mapRoot.map_revision) < maxInterval + minInterval

\* Two revisions written by the loop, as far apart as the deadline of an
\* epoch lets them be.
C18_Witness ==
    /\ mapRoot.map_revision >= 2
    /\ TimestampOf(2) - TimestampOf(1) = maxInterval + minInterval - 1
    /\ minInterval > 1

(***************************************************************************)
(* Properties of the leaves request (specification Spec).                  *)
(***************************************************************************)
\* The indexes of the GetLeaves request of the running CreateEpoch.
RequestedIndexes == IndexesOf(mRange)

\* C21 as stated: GetLeaves is asked for every index of the batch once, and
\* every mutation of a returned summary carries the inclusion proof of the
\* leaf at its own index under the revision the epoch started from.
C21_LeavesRequestedOncePerIndex ==
    /\ Called("GetLeaves") =>
          \A i, j \in 1..Len(RequestedIndexes) :
              RequestedIndexes[i] = RequestedIndexes[j] => i = j
    /\ (Returned /\ result # Nil) =>
          \A i \in 1..Len(result.Mutations) :
              /\ result.Mutations[i].Proof # Nil
              /\ result.Mutations[i].Proof.Leaf.Index = result.Mutations[i].Update.key
              /\ result.Mutations[i].Proof.Revision = startRevision

(***************************************************************************)
(* Properties of the mutation-source read (specification Spec).            *)
(***************************************************************************)
\* C22 as stated: a CreateEpoch whose NewTxn, ReadAll or Commit failed
\* returns an error and no summary, has called none of GetLeaves, SetLeaves
\* and QueueLeaf, has rolled back the transaction it opened, and has left the
\* map root as it was.
C22_FailedReadRollsBack ==
    (Returned /\ err \in {"NewTxn", "ReadAll", "Commit"}) =>
        /\ result = Nil
        /\ ~Called("GetLeaves") /\ ~Called("SetLeaves") /\ ~Called("QueueLeaf")
        /\ err # "NewTxn" => Called("Rollback")
        /\ mapRoot = atCall.mapRoot

(***************************************************************************)
(* Properties of a failed serialization (specification SpecMarshal).       *)
(***************************************************************************)
\* C23 as stated: once json.Marshal of the new SMR has failed after a
\* successful SetLeaves, the driver runs no CreateEpoch that calls SetLeaves
\* until the process is started again.
C23_MarshalFailureIsFatal ==
    marshalFailed => ~(InCreateEpoch /\ Called("SetLeaves"))

Dispatching == pc = "disseminateMutations_range"

\* The mutex has one holder, and the list the dispatcher ranges over is the
\* list of registered channels for as long as it ranges.
Exclusive ==
    /\ Dispatching =>
          /\ mMux = "disseminateMutations"
          /\ regPc # "append"
          /\ mChannels = dAtLock
          /\ Len(dSent) <= Len(dAtLock)
          /\ dSent = SubSeq(dAtLock, 1, Len(dSent))
    /\ regPc = "append" => mMux = "RegisterMutationsChannel"

\* C25: a registration never appends while a dispatch holds the lock; a
\* message is sent only inside a dispatch, to the next channel of the list
\* registered when the dispatch began, in registration order; the driver
\* leaves a dispatch only for the head of its loop and only when every one of
\* those channels has received; and while a dispatch waits for a subscriber to
\* receive, a registration that was called stays at its Lock and the driver
\* stays in the dispatch.
C25_RegistrationAndDispatchExclude ==
    [][/\ Exclusive /\ Exclusive'
       /\ Dispatching =>
              /\ mChannels' = mChannels
              /\ regPc = "Lock" => regPc' = "Lock"
              /\ pc' # pc =>
                     /\ pc' = "StartSigning_loop"
                     /\ dSent = dAtLock
                     /\ dAtLock = mChannels
       /\ delivered' # delivered =>
              /\ Dispatching /\ Dispatching'
              /\ Len(dSent) < Len(mChannels)
              /\ delivered' = [delivered EXCEPT ![mChannels[Len(dSent) + 1]] =
                                                     Append(@, result)]
              /\ dSent' = Append(dSent, mChannels[Len(dSent) + 1])
      ]_vars

\* The dispatcher holds the lock and waits for the subscriber behind ch2 to
\* receive, which has received one message before; the handler behind ch1 has
\* called RegisterMutationsChannel and waits at its Lock.
C25_Witness ==
    /\ Dispatching
    /\ dAtLock = <<"ch2">> /\ dSent = <<>>
    /\ Len(delivered["ch2"]) = 1
    /\ regPc = "Lock" /\ regCh = "ch1"

====
